---------------------------- MODULE Spec2Model ----------------------------
(***************************************************************************)
(* Greedy set cover (matthiaskaeding/setcover, crate setcover-core).       *)
(*                                                                         *)
(* Two families of entry points are modelled:                              *)
(*   - lib.rs: greedy_set_cover / greedy_set_cover_int_elements, which     *)
(*     route a HashMap<K, Vec<T>> to greedy_set_cover_bitvec, _std or      *)
(*     _textbook and return a sorted Vec<K> (or panic);                    *)
(*   - dense.rs / bitset.rs: greedy_set_cover_dense and                    *)
(*     greedy_set_cover_bitset, which return Option<Vec<usize>>.           *)
(*                                                                         *)
(* Conventions.  A Rust Vec is a TLA+ sequence.  Set indices are the       *)
(* positions of a sequence, so index i of the code is position i + 1 here; *)
(* element ids keep their value (0-based).  An AHashSet is a set.  A       *)
(* BitVec of length n is the set of its one-bit positions within 0..n-1.   *)
(* A u64 word is the set of its one-bit positions within 0..WordBits-1.    *)
(* A panic ends the call with the panic's kind as outcome.                 *)
(***************************************************************************)
EXTENDS Integers, Sequences, FiniteSets, TLC

VARIABLES
    entry,        \* the entry point called
    algo,         \* lib.rs: the `algo` argument
    sets,         \* lib.rs: the HashMap argument, key -> Vec of elements
    order,        \* lib.rs: the order in which the HashMap enumerates its keys
    universe_size,\* dense.rs / bitset.rs: the `universe_size` argument
    dsets,        \* dense.rs / bitset.rs: the integer sets of the input
    sets_bits,    \* bitset.rs: the `sets_bits` argument
    pc,           \* position in the call
    int_to_key,   \* lib.rs: index -> key, after the sort by size
    int_sets_vec, \* lib.rs: index -> Vec of element ids, after the sort by size
    st,           \* the running strategy's local variables
    result        \* the call's outcome

vars == << entry, algo, sets, order, universe_size, dsets, sets_bits, pc,
           int_to_key, int_sets_vec, st, result >>

-----------------------------------------------------------------------------
(* Bounds of the model *)

\* keys of the input map are 1..k for k <= NumKeys
NumKeys == 2
\* elements are 0..MaxElem
MaxElem == 1
\* total number of elements over all the sets of one input
MaxTotal == 4

\* u64: bits per word
WordBits == 64

Elems == 0 .. MaxElem

-----------------------------------------------------------------------------
(* Generic helpers *)

Min(a, b) == IF a <= b THEN a ELSE b

Range(s) == { s[i] : i \in DOMAIN s }

RECURSIVE SumLens(_, _)
SumLens(f, k) == IF k = 0 THEN 0 ELSE f[k] + SumLens(f, k - 1)

\* the permutations of 1..k, as sequences
Perms(k) == { p \in [1 .. k -> 1 .. k] : \A i, j \in 1 .. k : p[i] = p[j] => i = j }

\* the orders in which a hash set S may be iterated
Orders(S) == { p \in [1 .. Cardinality(S) -> S] :
                 \A i, j \in DOMAIN p : p[i] = p[j] => i = j }

\* the collections of k sequences over E whose lengths are lens[1..k]
Pieces(flat, lens) ==
    [ i \in DOMAIN lens |->
        SubSeq(flat, SumLens(lens, i - 1) + 1, SumLens(lens, i)) ]

Collections(k, E, total) ==
    UNION { { Pieces(flat, lens) : flat \in [1 .. SumLens(lens, k) -> E] } :
            lens \in { l \in [1 .. k -> 0 .. total] : SumLens(l, k) <= total } }

-----------------------------------------------------------------------------
(* lib.rs: the wrapper's preparation, lines 37-81 *)

RECURSIVE Flatten(_, _)
\* sets.values().flatten() in the map's enumeration order
Flatten(m, ord) ==
    IF ord = << >> THEN << >>
    ELSE m[Head(ord)] \o Flatten(m, Tail(ord))

RECURSIVE FirstSeen(_, _)
\* element_to_int as the list of elements in the order of their first
\* insertion: the element at position p has id p - 1
FirstSeen(flat, acc) ==
    IF flat = << >> THEN acc
    ELSE IF Head(flat) \in Range(acc) THEN FirstSeen(Tail(flat), acc)
    ELSE FirstSeen(Tail(flat), Append(acc, Head(flat)))

element_to_int(m, ord) == FirstSeen(Flatten(m, ord), << >>)

IdOf(e, seen) == (CHOOSE p \in DOMAIN seen : seen[p] = e) - 1

\* next_element_id after the scan: the number of distinct elements
next_element_id(m, ord) == Len(element_to_int(m, ord))

\* int_sets_vec before the sort, greedy_set_cover: the keys in enumeration
\* order, each set's elements replaced by their ids
IntSetsGeneric(m, ord) ==
    LET seen == element_to_int(m, ord)
    IN  [ i \in DOMAIN ord |->
            [ j \in DOMAIN m[ord[i]] |-> IdOf(m[ord[i]][j], seen) ] ]

\* int_sets_vec before the sort, greedy_set_cover_int_elements
IntSetsInt(m, ord) == [ i \in DOMAIN ord |-> m[ord[i]] ]

\* universe_size of greedy_set_cover_int_elements: max element + 1, or 0
MaxOf(S) == CHOOSE x \in S : \A y \in S : y <= x

UniverseSizeInt(isets) ==
    LET all == UNION { Range(isets[i]) : i \in DOMAIN isets }
    IN  IF all = {} THEN 0 ELSE MaxOf(all) + 1

RECURSIVE InsertBySize(_, _, _)
\* stable insertion: x goes behind every index whose set is at least as long
InsertBySize(sorted, x, isets) ==
    IF sorted = << >> THEN << x >>
    ELSE IF Len(isets[Head(sorted)]) >= Len(isets[x])
         THEN << Head(sorted) >> \o InsertBySize(Tail(sorted), x, isets)
         ELSE << x >> \o sorted

RECURSIVE SortPrefix(_, _)
SortPrefix(isets, n) ==
    IF n = 0 THEN << >>
    ELSE InsertBySize(SortPrefix(isets, n - 1), n, isets)

\* indices.sort_by(|&a, &b| int_sets_vec[b].len().cmp(&int_sets_vec[a].len())):
\* a stable sort by descending length and by nothing else
SortedIndices(isets) == SortPrefix(isets, Len(isets))


-----------------------------------------------------------------------------
(* lib.rs: the three strategies.  `isets` is the sorted int_sets_vec.  Each  *)
(* strategy is an initial loop state, one step of its while loop, and the   *)
(* run of the steps to the function's end.  status is "run" inside the      *)
(* function, "returned" once it has returned `cover`, and "panic" once it   *)
(* has panicked.  A scan's best is [key, count], key 0 standing for None.   *)

AllElements(isets) == UNION { Range(isets[i]) : i \in DOMAIN isets }

\* set_elements.iter().filter(|e| uncovered_elements.contains(e)).count():
\* every position of the Vec counts, a repeated element once per occurrence
FilterCount(set_elements, uncovered) ==
    Cardinality({ j \in DOMAIN set_elements : set_elements[j] \in uncovered })

NoBest == [key |-> 0, count |-> 0]

\* ---- greedy_set_cover_std, lines 179-222

StdInit(isets) ==
    [ uncovered_elements |-> AllElements(isets), cover |-> {},
      iterations |-> 0, status |-> "run" ]

RECURSIVE StdScanBreakBelowLongest(_, _, _, _)
\* faulty variant: the break compares against the length of the first set
StdScanBreakBelowLongest(isets, s, key, best) ==
    IF key > Len(isets) THEN best
    ELSE IF key \in s.cover
         THEN StdScanBreakBelowLongest(isets, s, key + 1, best)
    ELSE IF Len(isets[key]) < Len(isets[1]) THEN best
    ELSE LET intersection_count == FilterCount(isets[key], s.uncovered_elements)
         IN  IF intersection_count > best.count
             THEN StdScanBreakBelowLongest(isets, s, key + 1,
                          [key |-> key, count |-> intersection_count])
             ELSE StdScanBreakBelowLongest(isets, s, key + 1, best)

RECURSIVE StdScan(_, _, _, _)
\* the for loop of lines 188-205, from index `key` on
StdScan(isets, s, key, best) ==
    IF key > Len(isets) THEN best
    ELSE IF key \in s.cover THEN StdScan(isets, s, key + 1, best)
    ELSE IF Len(isets[key]) < best.count THEN best
    ELSE LET intersection_count == FilterCount(isets[key], s.uncovered_elements)
         IN  IF intersection_count > best.count
             THEN StdScan(isets, s, key + 1,
                          [key |-> key, count |-> intersection_count])
             ELSE StdScan(isets, s, key + 1, best)

\* faulty variant: the while condition tests the iteration cap alone
StdStepCapOnly(isets, s) ==
    IF s.iterations >= Len(isets)
    THEN [s EXCEPT !.status = "returned"]
    ELSE LET best == StdScan(isets, s, 1, NoBest)
         IN  IF best.key = 0
             THEN [s EXCEPT !.status = "panic"]
             ELSE [ uncovered_elements |->
                        s.uncovered_elements \ Range(isets[best.key]),
                    cover |-> s.cover \cup {best.key},
                    iterations |-> s.iterations + 1,
                    status |-> "run" ]

\* one evaluation of the while condition of line 184 and, if it holds, of
\* the loop body
StdStep(isets, s) ==
    IF s.uncovered_elements = {} \/ s.iterations >= Len(isets)
    THEN [s EXCEPT !.status = "returned"]
    ELSE LET best == StdScan(isets, s, 1, NoBest)
         IN  IF best.key = 0
             THEN [s EXCEPT !.status = "panic"]
             ELSE [ uncovered_elements |->
                        s.uncovered_elements \ Range(isets[best.key]),
                    cover |-> s.cover \cup {best.key},
                    iterations |-> s.iterations + 1,
                    status |-> "run" ]

\* ---- greedy_set_cover_textbook, lines 227-265

TextbookInit(isets) ==
    [ uncovered_elements |-> AllElements(isets), cover |-> {},
      status |-> "run" ]

RECURSIVE TextbookScan(_, _, _, _)
\* the for loop of lines 235-249, from index `key` on
TextbookScan(isets, s, key, best) ==
    IF key > Len(isets) THEN best
    ELSE IF key \in s.cover THEN TextbookScan(isets, s, key + 1, best)
    ELSE LET cover_count == FilterCount(isets[key], s.uncovered_elements)
         IN  IF cover_count > best.count
             THEN TextbookScan(isets, s, key + 1,
                               [key |-> key, count |-> cover_count])
             ELSE TextbookScan(isets, s, key + 1, best)

\* faulty variant: a round that finds a best set neither selects it nor
\* removes its elements
TextbookStepNoProgress(isets, s) ==
    IF s.uncovered_elements = {}
    THEN [s EXCEPT !.status = "returned"]
    ELSE LET best == TextbookScan(isets, s, 1, NoBest)
         IN  IF best.key = 0
             THEN [s EXCEPT !.status = "panic"]
             ELSE s

TextbookStep(isets, s) ==
    IF s.uncovered_elements = {}
    THEN [s EXCEPT !.status = "returned"]
    ELSE LET best == TextbookScan(isets, s, 1, NoBest)
         IN  IF best.key = 0
             THEN [s EXCEPT !.status = "panic"]
             ELSE [ uncovered_elements |->
                        s.uncovered_elements \ Range(isets[best.key]),
                    cover |-> s.cover \cup {best.key},
                    status |-> "run" ]

\* ---- greedy_set_cover_bitvec, lines 115-167

\* bitvec![0; universe_size] with bv.set(id, true) for every id of the set
BitSets(isets) == [ i \in DOMAIN isets |-> Range(isets[i]) ]

BitvecInit(isets, n) ==
    IF n = 0
    THEN [ bit_sets |-> << >>, uncovered_elements |-> {}, cover |-> {},
           iterations |-> 0, status |-> "returned" ]
    ELSE IF \E id \in AllElements(isets) : id >= n
    THEN \* bv.set past the end of the vector panics
         [ bit_sets |-> << >>, uncovered_elements |-> {}, cover |-> {},
           iterations |-> 0, status |-> "panic" ]
    ELSE [ bit_sets |-> BitSets(isets), uncovered_elements |-> 0 .. n - 1,
           cover |-> {}, iterations |-> 0, status |-> "run" ]

RECURSIVE BitvecScan(_, _, _)
\* the for loop of lines 139-152, from index `key` on
BitvecScan(s, key, best) ==
    IF key > Len(s.bit_sets) THEN best
    ELSE IF key \in s.cover THEN BitvecScan(s, key + 1, best)
    ELSE LET temp_buffer == s.bit_sets[key] \cap s.uncovered_elements
             covered_count == Cardinality(temp_buffer)
         IN  IF covered_count > best.count
             THEN BitvecScan(s, key + 1, [key |-> key, count |-> covered_count])
             ELSE BitvecScan(s, key + 1, best)

\* faulty variant: the iteration cap is one too small
BitvecContinuesOffByOne(s) ==
    s.uncovered_elements # {} /\ s.iterations + 1 < Len(s.bit_sets)

\* the while condition of line 135
BitvecContinues(s) ==
    s.uncovered_elements # {} /\ s.iterations < Len(s.bit_sets)

BitvecStep(s) ==
    IF ~BitvecContinues(s)
    THEN [s EXCEPT !.status = "returned"]
    ELSE LET best == BitvecScan(s, 1, NoBest)
         IN  IF best.key = 0
             THEN [s EXCEPT !.status = "panic"]
             ELSE LET temp_buffer ==
                          s.bit_sets[best.key] \cap s.uncovered_elements
                  IN  [s EXCEPT !.uncovered_elements = @ \ temp_buffer,
                                !.cover = @ \cup {best.key},
                                !.iterations = @ + 1]

\* ---- the strategies run to their end

RECURSIVE greedy_set_cover_std_from(_, _)
greedy_set_cover_std_from(isets, s) ==
    IF s.status # "run" THEN s
    ELSE greedy_set_cover_std_from(isets, StdStep(isets, s))

greedy_set_cover_std(isets) == greedy_set_cover_std_from(isets, StdInit(isets))

RECURSIVE greedy_set_cover_textbook_from(_, _)
greedy_set_cover_textbook_from(isets, s) ==
    IF s.status # "run" THEN s
    ELSE greedy_set_cover_textbook_from(isets, TextbookStep(isets, s))

greedy_set_cover_textbook(isets) ==
    greedy_set_cover_textbook_from(isets, TextbookInit(isets))

RECURSIVE greedy_set_cover_bitvec_from(_)
greedy_set_cover_bitvec_from(s) ==
    IF s.status # "run" THEN s
    ELSE greedy_set_cover_bitvec_from(BitvecStep(s))

greedy_set_cover_bitvec(isets, n) ==
    greedy_set_cover_bitvec_from(BitvecInit(isets, n))


-----------------------------------------------------------------------------
(* lib.rs: the wrappers greedy_set_cover (lines 32-102) and                  *)
(* greedy_set_cover_int_elements (lines 269-328)                            *)

Algos == { "greedy-bitvec", "greedy-standard", "greedy-textbook" }

\* the locals of a wrapper when it reaches its match on `algo`
Prepared(e, m, ord) ==
    LET unsorted == IF e = "greedy_set_cover"
                    THEN IntSetsGeneric(m, ord) ELSE IntSetsInt(m, ord)
        indices  == SortedIndices(unsorted)
    IN  [ int_sets_vec  |-> [ i \in DOMAIN indices |-> unsorted[indices[i]] ],
          int_to_key    |-> [ i \in DOMAIN indices |-> ord[indices[i]] ],
          universe_size |-> IF e = "greedy_set_cover"
                            THEN next_element_id(m, ord)
                            ELSE UniverseSizeInt(unsorted) ]

\* the strategy's loop state on entry, per arm of the match
StrategyInit(a, isets, n) ==
    CASE a = "greedy-bitvec"   -> BitvecInit(isets, n)
      [] a = "greedy-standard" -> StdInit(isets)
      [] a = "greedy-textbook" -> TextbookInit(isets)

StrategyStep(a, isets, s) ==
    CASE a = "greedy-bitvec"   -> BitvecStep(s)
      [] a = "greedy-standard" -> StdStep(isets, s)
      [] a = "greedy-textbook" -> TextbookStep(isets, s)

StrategyRun(a, isets, n) ==
    CASE a = "greedy-bitvec"   -> greedy_set_cover_bitvec(isets, n)
      [] a = "greedy-standard" -> greedy_set_cover_std(isets)
      [] a = "greedy-textbook" -> greedy_set_cover_textbook(isets)

RECURSIVE InsertKey(_, _)
InsertKey(sorted, k) ==
    IF sorted = << >> THEN << k >>
    ELSE IF Head(sorted) <= k
         THEN << Head(sorted) >> \o InsertKey(Tail(sorted), k)
         ELSE << k >> \o sorted

RECURSIVE SortKeys(_)
\* result.sort(): ascending in K's order
SortKeys(v) ==
    IF v = << >> THEN << >>
    ELSE InsertKey(SortKeys(SubSeq(v, 1, Len(v) - 1)), v[Len(v)])

\* faulty variant: the final sort is left out
CollectUnsorted(i2k, it) == [ i \in DOMAIN it |-> i2k[it[i]] ]

\* lines 93-101: the keys of the cover, taken in the hash set's iteration
\* order `it`, then sorted
Collect(i2k, it) == SortKeys([ i \in DOMAIN it |-> i2k[it[i]] ])

Pending == [kind |-> "pending", keys |-> << >>]
Ok(keys) == [kind |-> "Ok", keys |-> keys]
Failure(kind) == [kind |-> kind, keys |-> << >>]

\* a whole call of entry point e on the map m enumerated in order ord
CallOutcome(e, m, ord, a) ==
    IF a \notin Algos THEN Failure("InvalidAlgorithm")
    ELSE LET p == Prepared(e, m, ord)
             s == StrategyRun(a, p.int_sets_vec, p.universe_size)
         IN  IF s.status = "panic" THEN Failure("InfeasibleCover")
             ELSE Ok(Collect(p.int_to_key, CHOOSE it \in Orders(s.cover) : TRUE))

-----------------------------------------------------------------------------
(* bitset.rs *)

NumWords(n) == (n + (WordBits - 1)) \div WordBits

AllOnes == 0 .. WordBits - 1

\* w >> k on a u64
ShiftRight(w, k) == { b - k : b \in { x \in w : x >= k } }

\* make_bitset, lines 3-17
make_bitset(n, elements) ==
    [ word \in 1 .. NumWords(n) |->
        { e % WordBits : e \in { x \in Range(elements) :
                                   x < n /\ x \div WordBits = word - 1 } } ]

\* line 23: the number of bits of the last word past the universe
Excess(n) == NumWords(n) * WordBits - n

\* faulty variant: the last word is left unmasked
make_uncovered_unmasked(n) == [ word \in 1 .. NumWords(n) |-> AllOnes ]

\* make_uncovered, lines 19-31
make_uncovered(n) ==
    LET num_words == NumWords(n)
        excess    == Excess(n)
    IN  [ word \in 1 .. num_words |->
            IF excess > 0 /\ word = num_words
            THEN AllOnes \cap ShiftRight(AllOnes, excess)
            ELSE AllOnes ]

RECURSIVE SumGain(_, _, _)
SumGain(set_bits, uncovered, w) ==
    IF w = 0 THEN 0
    ELSE Cardinality(set_bits[w] \cap uncovered[w])
         + SumGain(set_bits, uncovered, w - 1)

\* faulty variant: only the first word is counted
coverage_gain_first_word(set_bits, uncovered) ==
    SumGain(set_bits, uncovered, Min(1, Min(Len(set_bits), Len(uncovered))))

\* coverage_gain, lines 33-39: zip stops at the shorter of the two
coverage_gain(set_bits, uncovered) ==
    SumGain(set_bits, uncovered, Min(Len(set_bits), Len(uncovered)))

\* greedy_set_cover_bitset, lines 43-88
BitsetInit(n, sbits) ==
    IF n = 0
    THEN [ uncovered |-> << >>, remaining |-> 0, chosen |-> << >>,
           used |-> {}, status |-> "Some" ]
    ELSE [ uncovered |-> make_uncovered(n), remaining |-> n,
           chosen |-> << >>, used |-> {}, status |-> "run" ]

RECURSIVE BitsetScan(_, _, _, _)
\* the for loop of lines 57-66, from index i on; best is [key, count]
BitsetScan(sbits, s, i, best) ==
    IF i > Len(sbits) THEN best
    ELSE IF i \in s.used THEN BitsetScan(sbits, s, i + 1, best)
    ELSE LET gain == coverage_gain(sbits[i], s.uncovered)
         IN  IF gain > best.count
             THEN BitsetScan(sbits, s, i + 1, [key |-> i, count |-> gain])
             ELSE BitsetScan(sbits, s, i + 1, best)

\* lines 76-84: zip over the words of `uncovered` and of the chosen set
BitsetApply(uncovered, bits) ==
    [ w \in DOMAIN uncovered |->
        IF w <= Len(bits) THEN uncovered[w] \ bits[w] ELSE uncovered[w] ]

BitsetStep(sbits, s) ==
    IF s.remaining <= 0
    THEN [s EXCEPT !.status = "Some"]
    ELSE LET best == BitsetScan(sbits, s, 1, NoBest)
         IN  IF best.key = 0 \/ best.count <= 0
             THEN [s EXCEPT !.status = "None"]
             ELSE [s EXCEPT
                     !.used = @ \cup {best.key},
                     !.chosen = Append(@, best.key),
                     !.remaining =
                         @ - coverage_gain(sbits[best.key], s.uncovered),
                     !.uncovered = BitsetApply(@, sbits[best.key])]

RECURSIVE greedy_set_cover_bitset_from(_, _)
greedy_set_cover_bitset_from(sbits, s) ==
    IF s.status # "run" THEN s
    ELSE greedy_set_cover_bitset_from(sbits, BitsetStep(sbits, s))

greedy_set_cover_bitset(n, sbits) ==
    greedy_set_cover_bitset_from(sbits, BitsetInit(n, sbits))


-----------------------------------------------------------------------------
(* dense.rs.  `uncovered` (a Vec<bool>) is the set of the ids whose entry  *)
(* is true; `used` is the set of the indices whose entry is true.           *)

\* lines 23-28: one increment per position of the Vec that holds an id in
\* range whose entry of `uncovered` is true
DenseCount(n, set, uncovered) ==
    Cardinality({ j \in DOMAIN set : set[j] < n /\ set[j] \in uncovered })

DenseInit(n, ssets) ==
    IF n = 0
    THEN [ uncovered |-> {}, remaining |-> 0, chosen |-> << >>,
           used |-> {}, status |-> "Some" ]
    ELSE [ uncovered |-> 0 .. n - 1, remaining |-> n, chosen |-> << >>,
           used |-> {}, status |-> "run" ]

RECURSIVE DenseScan(_, _, _, _, _)
\* the for loop of lines 19-33, from index i on; best is [key, count]
DenseScan(n, ssets, s, i, best) ==
    IF i > Len(ssets) THEN best
    ELSE IF i \in s.used THEN DenseScan(n, ssets, s, i + 1, best)
    ELSE LET cover == DenseCount(n, ssets[i], s.uncovered)
         IN  IF cover > best.count
             THEN DenseScan(n, ssets, s, i + 1, [key |-> i, count |-> cover])
             ELSE DenseScan(n, ssets, s, i + 1, best)

\* the positions of the chosen set at which line 44's condition holds when
\* the loop of lines 43-51 reaches them: an id in range, uncovered before the
\* loop and not seen at an earlier position (line 45 clears it there)
DenseHits(n, set, uncovered) ==
    { j \in DOMAIN set :
        /\ set[j] < n
        /\ set[j] \in uncovered
        /\ \A i \in 1 .. j - 1 : set[i] # set[j] }

\* the for loop of lines 43-51: the hits are taken in position order, each
\* clearing its entry and decrementing `remaining`, and the loop breaks at the
\* hit that brings `remaining` to 0.  With no more hit ids than `remaining`
\* the loop reaches every hit.
DenseApply(n, set, uncovered, remaining) ==
    LET ids == { x \in Range(set) : x < n /\ x \in uncovered }
    IN  IF Cardinality(ids) <= remaining
        THEN [ uncovered |-> uncovered \ ids,
               remaining |-> remaining - Cardinality(ids) ]
        ELSE LET hits  == DenseHits(n, set, uncovered)
                 taken == { j \in hits :
                              Cardinality({ i \in hits : i < j }) < remaining }
             IN  [ uncovered |-> uncovered \ { set[j] : j \in taken },
                   remaining |-> remaining - Cardinality(taken) ]

DenseStep(n, ssets, s) ==
    IF ~(s.remaining > 0)
    THEN [s EXCEPT !.status = "Some"]
    ELSE LET best == DenseScan(n, ssets, s, 1, NoBest)
         IN  IF best.key = 0 \/ ~(best.count > 0)
             THEN [s EXCEPT !.status = "None"]
             ELSE LET after == DenseApply(n, ssets[best.key],
                                         s.uncovered, s.remaining)
                  IN  [s EXCEPT !.used = @ \cup {best.key},
                                !.chosen = Append(@, best.key),
                                !.uncovered = after.uncovered,
                                !.remaining = after.remaining]

RECURSIVE greedy_set_cover_dense_from(_, _, _)
greedy_set_cover_dense_from(n, ssets, s) ==
    IF s.status # "run" THEN s
    ELSE greedy_set_cover_dense_from(n, ssets, DenseStep(n, ssets, s))

greedy_set_cover_dense(n, ssets) ==
    greedy_set_cover_dense_from(n, ssets, DenseInit(n, ssets))

\* the bitsets a caller of greedy_set_cover_bitset builds from integer sets
SetsBits(n, ssets) == [ i \in DOMAIN ssets |-> make_bitset(n, ssets[i]) ]

\* Option<Vec<usize>> of either function, from its final loop state
Option(s) == IF s.status = "Some" THEN [kind |-> "Some", keys |-> s.chosen]
             ELSE [kind |-> "None", keys |-> << >>]

-----------------------------------------------------------------------------
(* mapping.rs: compress_universe, lines 10-30.  `map` is a function from    *)
(* the elements seen so far to their ids; `i` is the number of sets the     *)
(* running for loop has finished.                                           *)

\* lines 11-12
CompressInit ==
    [ map |-> << >>, reverse |-> << >>, dense_sets |-> << >>, i |-> 0,
      status |-> "scan" ]

\* faulty variant: an element gets a new id at every sighting
CompressItemAlways(c, item) ==
    [c EXCEPT !.map = [ x \in DOMAIN c.map \cup {item} |->
                          IF x = item THEN Len(c.reverse) ELSE c.map[x] ],
              !.reverse = Append(@, item)]

\* lines 16-20: the body of the inner loop for one item
CompressItem(c, item) ==
    IF item \in DOMAIN c.map THEN c
    ELSE LET id == Len(c.reverse)
         IN  [c EXCEPT !.map = [ x \in DOMAIN c.map \cup {item} |->
                                   IF x = item THEN id ELSE c.map[x] ],
                       !.reverse = Append(@, item)]

RECURSIVE CompressItems(_, _)
\* the inner loop of lines 15-21 over the items of one set
CompressItems(c, s) ==
    IF s = << >> THEN c
    ELSE CompressItems(CompressItem(c, Head(s)), Tail(s))

\* one turn of the loop of line 14: the next set is scanned, or the loop ends
\* and line 24 allocates dense_sets
CompressScanStep(ssets, c) ==
    IF c.i >= Len(ssets)
    THEN [c EXCEPT !.status = "emit", !.i = 0]
    ELSE [CompressItems(c, ssets[c.i + 1]) EXCEPT !.i = c.i + 1]

\* one turn of the loop of line 25: s.iter().map(|x| map[x]).collect() is
\* pushed, or the loop ends and line 29 returns
CompressEmitStep(ssets, c) ==
    IF c.i >= Len(ssets)
    THEN [c EXCEPT !.status = "paired"]
    ELSE LET s == ssets[c.i + 1]
         IN  [c EXCEPT !.dense_sets =
                           Append(@, [ j \in DOMAIN s |-> c.map[s[j]] ]),
                       !.i = c.i + 1]

CompressStep(ssets, c) ==
    IF c.status = "scan" THEN CompressScanStep(ssets, c)
    ELSE CompressEmitStep(ssets, c)

RECURSIVE compress_universe_from(_, _)
compress_universe_from(ssets, c) ==
    IF c.status = "paired" THEN c
    ELSE compress_universe_from(ssets, CompressStep(ssets, c))

\* the pair (dense_sets, reverse) of line 29
Pair(c) == [kind |-> "Pair", dense_sets |-> c.dense_sets, reverse |-> c.reverse]

compress_universe(ssets) == Pair(compress_universe_from(ssets, CompressInit))

-----------------------------------------------------------------------------
(* The calls.  One behaviour is one call: Init draws the entry point and its *)
(* arguments, the actions run the call to its outcome.                      *)

LibEntries == { "greedy_set_cover", "greedy_set_cover_int_elements" }
DenseEntries == { "greedy_set_cover_dense", "greedy_set_cover_bitset" }

\* the `algo` strings tried: the three recognized names and another one
AlgoInputs == Algos \cup { "bogus" }

\* block sizes by which the ids of a dense input are spread: an element e of
\* a drawn collection stands for the ids e*b .. e*b + b - 1.  The larger
\* block size puts the last block across the boundary of the first word.
BlockSizes == { 1, WordBits \div 2 + 1 }

RECURSIVE Spread(_, _)
Spread(seq, b) ==
    IF seq = << >> THEN << >>
    ELSE [ j \in 1 .. b |-> Head(seq) * b + j - 1 ] \o Spread(Tail(seq), b)

\* universe sizes tried with block size b: every size up to one past the
\* largest id for b = 1; else one word, and the sizes around the largest id
SizesFor(b) ==
    LET top == (MaxElem + 1) * b
    IN  IF b = 1 THEN 0 .. top + 1
        ELSE { WordBits, top - 1, top, top + 1 }

InitLib ==
    /\ \E k \in 0 .. NumKeys :
         /\ sets \in Collections(k, Elems, MaxTotal)
         /\ order \in Perms(k)
    /\ entry \in LibEntries
    /\ algo \in AlgoInputs
    /\ universe_size = 0
    /\ dsets = << >>
    /\ sets_bits = << >>
    /\ pc = "prepare"
    /\ int_to_key = << >>
    /\ int_sets_vec = << >>
    /\ st = [status |-> "none"]
    /\ result = Pending

InitDense ==
    /\ entry \in DenseEntries
    /\ algo = ""
    /\ sets = << >>
    /\ order = << >>
    /\ \E k \in 0 .. NumKeys :
         \E c \in Collections(k, Elems, MaxTotal) :
           \E b \in BlockSizes :
             /\ dsets = [ i \in 1 .. k |-> Spread(c[i], b) ]
             /\ universe_size \in SizesFor(b)
    /\ sets_bits = IF entry = "greedy_set_cover_bitset"
                   THEN SetsBits(universe_size, dsets) ELSE << >>
    /\ pc = "dispatch"
    /\ int_to_key = << >>
    /\ int_sets_vec = << >>
    /\ st = [status |-> "none"]
    /\ result = Pending

\* universe sizes for which a caller may have built the bitsets it passes,
\* with block size b: one past the largest id, so that every id has its bit,
\* and for the larger block size one word, so that the bitsets are shorter
\* than `uncovered`
BuiltFor(b) ==
    LET top == (MaxElem + 1) * b
    IN  IF b = 1 THEN { top + 1 } ELSE { WordBits, top + 1 }

\* a call of greedy_set_cover_bitset on bitsets built for another universe
\* size than the one passed: bits at or past universe_size, fewer or more
\* words than `uncovered`
InitBitsetAny ==
    /\ entry = "greedy_set_cover_bitset"
    /\ algo = ""
    /\ sets = << >>
    /\ order = << >>
    /\ dsets = << >>
    /\ \E k \in 0 .. NumKeys :
         \E c \in Collections(k, Elems, MaxTotal) :
           \E b \in BlockSizes :
             \E m \in BuiltFor(b) :
               /\ universe_size \in SizesFor(b) \ {m}
               /\ sets_bits = SetsBits(m, [ i \in 1 .. k |-> Spread(c[i], b) ])
    /\ pc = "dispatch"
    /\ int_to_key = << >>
    /\ int_sets_vec = << >>
    /\ st = [status |-> "none"]
    /\ result = Pending

\* a call of compress_universe: `dsets` is its `sets` argument
InitCompress ==
    /\ entry = "compress_universe"
    /\ algo = ""
    /\ sets = << >>
    /\ order = << >>
    /\ \E k \in 0 .. NumKeys : dsets \in Collections(k, Elems, MaxTotal)
    /\ universe_size = 0
    /\ sets_bits = << >>
    /\ pc = "dispatch"
    /\ int_to_key = << >>
    /\ int_sets_vec = << >>
    /\ st = [status |-> "none"]
    /\ result = Pending

Init == InitLib \/ InitDense \/ InitCompress


input == << entry, algo, sets, order, dsets, sets_bits >>

\* lib.rs lines 37-81 and 273-308: keys and elements to integers, the sort
Prepare ==
    /\ pc = "prepare"
    /\ LET p == Prepared(entry, sets, order)
       IN  /\ int_to_key' = p.int_to_key
           /\ int_sets_vec' = p.int_sets_vec
           /\ universe_size' = p.universe_size
    /\ pc' = "dispatch"
    /\ UNCHANGED << input, st, result >>

\* lib.rs lines 84-87 and 311-314: a recognized name enters its strategy
DispatchStrategy ==
    /\ pc = "dispatch"
    /\ entry \in LibEntries
    /\ algo \in Algos
    /\ st' = StrategyInit(algo, int_sets_vec, universe_size)
    /\ pc' = "loop"
    /\ UNCHANGED << input, universe_size, int_to_key, int_sets_vec, result >>

\* faulty variant: the default arm runs the textbook strategy
DispatchInvalidFallsBack ==
    /\ pc = "dispatch"
    /\ entry \in LibEntries
    /\ algo \notin Algos
    /\ st' = TextbookInit(int_sets_vec)
    /\ pc' = "loop"
    /\ UNCHANGED << input, universe_size, int_to_key, int_sets_vec, result >>

\* lib.rs lines 88-90 and 315-317: any other name panics
DispatchInvalid ==
    /\ pc = "dispatch"
    /\ entry \in LibEntries
    /\ algo \notin Algos
    /\ result' = Failure("InvalidAlgorithm")
    /\ pc' = "done"
    /\ UNCHANGED << input, universe_size, int_to_key, int_sets_vec, st >>

StepBitvec ==
    /\ pc = "loop" /\ st.status = "run" /\ algo = "greedy-bitvec"
    /\ st' = BitvecStep(st)
    /\ UNCHANGED << input, universe_size, pc, int_to_key, int_sets_vec, result >>

StepStd ==
    /\ pc = "loop" /\ st.status = "run" /\ algo = "greedy-standard"
    /\ st' = StdStep(int_sets_vec, st)
    /\ UNCHANGED << input, universe_size, pc, int_to_key, int_sets_vec, result >>

StepTextbook ==
    /\ pc = "loop" /\ st.status = "run" /\ algo = "greedy-textbook"
    /\ st' = TextbookStep(int_sets_vec, st)
    /\ UNCHANGED << input, universe_size, pc, int_to_key, int_sets_vec, result >>

\* lib.rs lines 93-101 and 320-327: the cover's keys, sorted
ReturnKeys ==
    /\ pc = "loop" /\ st.status = "returned"
    /\ \E it \in Orders(st.cover) : result' = Ok(Collect(int_to_key, it))
    /\ pc' = "done"
    /\ UNCHANGED << input, universe_size, int_to_key, int_sets_vec, st >>

\* the strategy's panic unwinds through the wrapper
Unwind ==
    /\ pc = "loop" /\ st.status = "panic"
    /\ result' = Failure("InfeasibleCover")
    /\ pc' = "done"
    /\ UNCHANGED << input, universe_size, int_to_key, int_sets_vec, st >>

EnterDense ==
    /\ pc = "dispatch" /\ entry = "greedy_set_cover_dense"
    /\ st' = DenseInit(universe_size, dsets)
    /\ pc' = "loop"
    /\ UNCHANGED << input, universe_size, int_to_key, int_sets_vec, result >>

EnterBitset ==
    /\ pc = "dispatch" /\ entry = "greedy_set_cover_bitset"
    /\ st' = BitsetInit(universe_size, sets_bits)
    /\ pc' = "loop"
    /\ UNCHANGED << input, universe_size, int_to_key, int_sets_vec, result >>

StepDense ==
    /\ pc = "loop" /\ st.status = "run" /\ entry = "greedy_set_cover_dense"
    /\ st' = DenseStep(universe_size, dsets, st)
    /\ UNCHANGED << input, universe_size, pc, int_to_key, int_sets_vec, result >>

StepBitset ==
    /\ pc = "loop" /\ st.status = "run" /\ entry = "greedy_set_cover_bitset"
    /\ st' = BitsetStep(sets_bits, st)
    /\ UNCHANGED << input, universe_size, pc, int_to_key, int_sets_vec, result >>

\* dense.rs lines 54 and 37, bitset.rs lines 87 and 70: Some(chosen) or None
ReturnOption ==
    /\ pc = "loop" /\ st.status \in { "Some", "None" }
    /\ result' = Option(st)
    /\ pc' = "done"
    /\ UNCHANGED << input, universe_size, int_to_key, int_sets_vec, st >>

EnterCompress ==
    /\ pc = "dispatch" /\ entry = "compress_universe"
    /\ st' = CompressInit
    /\ pc' = "loop"
    /\ UNCHANGED << input, universe_size, int_to_key, int_sets_vec, result >>

\* mapping.rs lines 14-22
CompressScan ==
    /\ pc = "loop" /\ entry = "compress_universe" /\ st.status = "scan"
    /\ st' = CompressScanStep(dsets, st)
    /\ UNCHANGED << input, universe_size, pc, int_to_key, int_sets_vec, result >>

\* mapping.rs lines 24-27
CompressEmit ==
    /\ pc = "loop" /\ entry = "compress_universe" /\ st.status = "emit"
    /\ st' = CompressEmitStep(dsets, st)
    /\ UNCHANGED << input, universe_size, pc, int_to_key, int_sets_vec, result >>

\* mapping.rs line 29
ReturnPair ==
    /\ pc = "loop" /\ entry = "compress_universe" /\ st.status = "paired"
    /\ result' = Pair(st)
    /\ pc' = "done"
    /\ UNCHANGED << input, universe_size, int_to_key, int_sets_vec, st >>

NextLib ==
    \/ Prepare
    \/ DispatchStrategy
    \/ DispatchInvalid
    \/ StepBitvec
    \/ StepStd
    \/ StepTextbook
    \/ ReturnKeys
    \/ Unwind

NextDense ==
    \/ EnterDense
    \/ EnterBitset
    \/ StepDense
    \/ StepBitset
    \/ ReturnOption

NextCompress ==
    \/ EnterCompress
    \/ CompressScan
    \/ CompressEmit
    \/ ReturnPair

Next == NextLib \/ NextDense \/ NextCompress

\* a call of any entry point
Spec == Init /\ [][Next]_vars

\* a call of greedy_set_cover or greedy_set_cover_int_elements
SpecLib == InitLib /\ [][NextLib]_vars

\* a call of greedy_set_cover_dense or greedy_set_cover_bitset
SpecDense == InitDense /\ [][NextDense]_vars

\* a call of greedy_set_cover_dense, or of greedy_set_cover_bitset on the
\* make_bitset images of the sets or on other bitsets
SpecDenseAny == (InitDense \/ InitBitsetAny) /\ [][NextDense]_vars

\* ENABLED <<Prepare>>_vars, written out: Prepare changes pc
PrepareEnabled == pc = "prepare"

\* ENABLED <<StepDense>>_vars, written out: the step's guard, and the loop
\* state it yields differs from the one it found
StepDenseEnabled ==
    /\ pc = "loop" /\ st.status = "run" /\ entry = "greedy_set_cover_dense"
    /\ DenseStep(universe_size, dsets, st) # st

\* the steps other than Prepare and StepDense
NextOther ==
    \/ DispatchStrategy \/ DispatchInvalid
    \/ StepBitvec \/ StepStd \/ StepTextbook
    \/ ReturnKeys \/ Unwind
    \/ EnterDense \/ EnterBitset \/ StepBitset \/ ReturnOption
    \/ NextCompress

\* a call of any entry point, run to its end: the call is synchronous and
\* single-threaded, nothing suspends it, so a step that can be taken is
\* taken.  The second and third conjunct are WF_vars(Prepare) and
\* WF_vars(StepDense) with ENABLED written out.
FairSpec ==
    /\ Spec
    /\ WF_vars(NextOther)
    /\ ([]<>(~PrepareEnabled) \/ []<><<Prepare>>_vars)
    /\ ([]<>(~StepDenseEnabled) \/ []<><<StepDense>>_vars)

\* a call of compress_universe
SpecCompress == InitCompress /\ [][NextCompress]_vars


-----------------------------------------------------------------------------
(* Properties *)

Returned == pc = "done" /\ entry \in LibEntries /\ result.kind = "Ok"

\* the elements of the input sets named by the keys ks
ElementsOf(ks) == UNION { Range(sets[k]) : k \in ks }

\* C1: when greedy_set_cover returns a key list under a recognized strategy,
\* the sets named by the returned keys together hold every element of every
\* input set.
C1_FullCoverage ==
    (Returned /\ entry = "greedy_set_cover")
        => ElementsOf(Range(result.keys)) = ElementsOf(DOMAIN sets)

\* a returned cover of two sets, neither of which covers alone
C1_Witness ==
    /\ Returned /\ entry = "greedy_set_cover"
    /\ Len(result.keys) = 2
    /\ \A k \in DOMAIN sets : Range(sets[k]) # ElementsOf(DOMAIN sets)

\* C2 as claimed: the three strategies give the same outcome on the same
\* input (the same map, enumerated in the same order), through either wrapper.
C2_StrategyEquivalence ==
    (pc = "done" /\ entry \in LibEntries /\ algo \in Algos)
        => \A a \in Algos : CallOutcome(entry, sets, order, a) = result

\* C3 as claimed: the outcome of greedy_set_cover does not depend on the order
\* in which the map enumerates its entries.
C3_Determinism ==
    (pc = "done" /\ entry = "greedy_set_cover" /\ algo \in Algos)
        => \A o \in Perms(Len(order)) :
             CallOutcome(entry, sets, o, algo) = result

\* C4: a returned key list is strictly ascending, whatever order the sets
\* were selected in and the cover was iterated in.
C4_StrictlyAscending ==
    Returned => \A i \in 1 .. Len(result.keys) - 1 :
                  result.keys[i] < result.keys[i + 1]

\* two keys returned in ascending order although the larger key's set sits at
\* the first index
C4_Witness ==
    /\ Returned
    /\ Len(result.keys) = 2
    /\ int_to_key[1] > int_to_key[2]


DenseDone == pc = "done" /\ entry \in DenseEntries

\* every id of the universe belongs to at least one of the sets at indices I
Covers(I) ==
    0 .. universe_size - 1 \subseteq UNION { Range(dsets[i]) : i \in I }

\* C5: greedy_set_cover_dense and greedy_set_cover_bitset (on the make_bitset
\* images of the sets) return Some(chosen) exactly when every id of
\* 0..universe_size-1 belongs to some set, and the chosen sets then hold every
\* such id; otherwise they return None.
C5_SomeIffCoverable ==
    DenseDone =>
        /\ result.kind \in { "Some", "None" }
        /\ (result.kind = "Some") <=> Covers(DOMAIN dsets)
        /\ (result.kind = "Some") => Covers(Range(result.keys))
        /\ (result.kind = "None") => result.keys = << >>

\* a cover of a universe of more than one word, found by the bitset function
\* in two rounds
C5_Witness ==
    /\ DenseDone /\ entry = "greedy_set_cover_bitset"
    /\ universe_size > WordBits
    /\ result.kind = "Some"
    /\ Len(result.keys) = 2

\* the largest element of the input map, -1 if it has none
MaxElement == IF ElementsOf(DOMAIN sets) = {} THEN -1
              ELSE MaxOf(ElementsOf(DOMAIN sets))

\* C6 as claimed: greedy_set_cover_int_elements returns keys whose sets hold
\* every id of 0..max element, or fails with InfeasibleCover.
C6_IntElementsCoversUniverse ==
    (pc = "done" /\ entry = "greedy_set_cover_int_elements" /\ algo \in Algos)
        => \/ result.kind = "InfeasibleCover"
           \/ /\ result.kind = "Ok"
              /\ 0 .. MaxElement \subseteq ElementsOf(Range(result.keys))

\* C7: with an unrecognized strategy name both wrappers fail with
\* InvalidAlgorithm, for the empty map too, and no strategy is ever entered.
C7_InvalidAlgorithm ==
    (entry \in LibEntries /\ algo \notin Algos)
        => /\ st.status = "none"
           /\ result.kind \in { "pending", "InvalidAlgorithm" }
           /\ pc = "done" => result = Failure("InvalidAlgorithm")

\* the call on the empty map has failed
C7_Witness ==
    /\ pc = "done" /\ entry \in LibEntries /\ algo = "bogus"
    /\ DOMAIN sets = {}
    /\ result.kind = "InvalidAlgorithm"

\* C8: when the input sets hold no element at all, every strategy returns the
\* empty cover through either wrapper; greedy_set_cover_dense and
\* greedy_set_cover_bitset return Some(empty) for universe size 0, whatever
\* the sets.
C8_EmptyUniverse ==
    /\ (pc = "done" /\ entry \in LibEntries /\ algo \in Algos
            /\ ElementsOf(DOMAIN sets) = {})
         => result = Ok(<< >>)
    /\ (DenseDone /\ universe_size = 0)
         => result = [kind |-> "Some", keys |-> << >>]

\* two empty sets, and the call has returned
C8_Witness ==
    /\ pc = "done" /\ entry \in LibEntries /\ algo \in Algos
    /\ Len(sets) = 2 /\ ElementsOf(DOMAIN sets) = {}
    /\ result.kind = "Ok"

\* universe size 0 with non-empty sets, and the call has returned
C8_WitnessDense ==
    /\ DenseDone /\ universe_size = 0
    /\ \E i \in DOMAIN dsets : dsets[i] # << >>

\* C9 as claimed: on the same universe size and sets, greedy_set_cover_bitset
\* (on the make_bitset images) and greedy_set_cover_dense return the same
\* Option, the chosen indices in the same order.
C9_BitsetEqualsDense ==
    DenseDone =>
        /\ result = Option(greedy_set_cover_dense(universe_size, dsets))
        /\ result = Option(greedy_set_cover_bitset(universe_size,
                               SetsBits(universe_size, dsets)))

\* a Vec without its repeated elements, first occurrences kept
Dedup(v) == FirstSeen(v, << >>)

\* C10 as claimed: the outcome for a map equals the outcome for the same map
\* with the repeated elements of every set removed.
C10_DuplicatesHarmless ==
    (pc = "done" /\ entry \in LibEntries /\ algo \in Algos)
        => result = CallOutcome(entry, [ k \in DOMAIN sets |-> Dedup(sets[k]) ],
                                order, algo)

\* the elements of the sets given to compress_universe, in scan order
ScanOrder == Flatten(dsets, [ i \in DOMAIN dsets |-> i ])

\* the position of the first occurrence of element x in the scan
FirstAt(x) ==
    CHOOSE p \in DOMAIN ScanOrder :
        ScanOrder[p] = x /\ \A q \in 1 .. p - 1 : ScanOrder[q] # x

\* C11: compress_universe returns dense_sets of the shape of sets and a
\* reverse map with reverse[dense_sets[i][j]] = sets[i][j] at every position;
\* distinct elements have distinct ids, the ids follow the order of the
\* elements' first occurrences in the scan, and the ids used are exactly
\* 0..n-1 for n = reverse.len() = the number of distinct elements.
C11_CompressUniverse ==
    (pc = "done" /\ entry = "compress_universe") =>
        LET d == result.dense_sets
            r == result.reverse
            n == Len(r)
        IN  /\ result.kind = "Pair"
            /\ Len(d) = Len(dsets)
            /\ \A i \in DOMAIN dsets :
                 /\ Len(d[i]) = Len(dsets[i])
                 /\ \A j \in DOMAIN dsets[i] :
                      /\ d[i][j] \in 0 .. n - 1
                      /\ r[d[i][j] + 1] = dsets[i][j]
            /\ \A a, b \in 1 .. n : r[a] = r[b] => a = b
            /\ \A a, b \in 1 .. n : a < b => FirstAt(r[a]) < FirstAt(r[b])
            /\ UNION { Range(d[i]) : i \in DOMAIN d } = 0 .. n - 1
            /\ n = Cardinality(Range(ScanOrder))

\* two sets sharing an element, the larger element scanned first: the ids
\* differ from the elements and an id is reused across sets
C11_Witness ==
    /\ pc = "done" /\ entry = "compress_universe"
    /\ Len(dsets) = 2
    /\ result.reverse = << 1, 0 >>
    /\ result.dense_sets = << << 0, 1, 0 >>, << 1 >> >>

\* ---- rounds of a strategy, whichever it is

Strategies == LibEntries \cup DenseEntries

\* the indices selected so far in loop state s
SelectedIn(s) == IF entry \in LibEntries THEN s.cover ELSE s.used

\* the ids of a sequence of u64 words
IdsOfWords(words) ==
    UNION { { (w - 1) * WordBits + b : b \in words[w] } : w \in DOMAIN words }

\* the ids still uncovered in loop state s
UncoveredIn(s) ==
    IF entry \in LibEntries THEN s.uncovered_elements
    ELSE IF entry = "greedy_set_cover_bitset" THEN IdsOfWords(s.uncovered)
    ELSE s.uncovered

\* the number of candidate sets of the running strategy
NumSets ==
    IF entry \in LibEntries THEN Len(int_sets_vec)
    ELSE IF entry = "greedy_set_cover_bitset" THEN Len(sets_bits)
    ELSE Len(dsets)

\* the distinct ids of the universe held by the set at index i
IdsOfSet(i) ==
    IF entry \in LibEntries THEN Range(int_sets_vec[i])
    ELSE IF entry = "greedy_set_cover_bitset" THEN IdsOfWords(sets_bits[i])
    ELSE Range(dsets[i]) \cap 0 .. universe_size - 1

\* the number of distinct still-uncovered ids of the set at index i
DistinctGain(i, s) == Cardinality(IdsOfSet(i) \cap UncoveredIn(s))

\* this step is a turn of a strategy's loop
Round ==
    /\ entry \in Strategies
    /\ pc = "loop" /\ st.status = "run"
    /\ st' # st

\* this step is a round that selects a set
Selecting == Round /\ st'.status = "run"

\* C12 as claimed: a round that selects, selects one set, not selected
\* before, whose number of distinct still-uncovered ids is positive and the
\* largest among the sets not selected before, and the lowest index among
\* those with that number.
C12_SelectionRule ==
    [][ Selecting =>
          \E k \in (1 .. NumSets) \ SelectedIn(st) :
            /\ SelectedIn(st') = SelectedIn(st) \cup {k}
            /\ DistinctGain(k, st) > 0
            /\ \A i \in (1 .. NumSets) \ SelectedIn(st) :
                 /\ DistinctGain(i, st) <= DistinctGain(k, st)
                 /\ i < k => DistinctGain(i, st) < DistinctGain(k, st) ]_vars

\* the loop state of greedy_set_cover_textbook that holds what the loop state
\* s of greedy_set_cover_std holds
AsTextbook(s) ==
    [ uncovered_elements |-> s.uncovered_elements, cover |-> s.cover,
      status |-> s.status ]

\* C13: on the sets as the router orders them (by non-increasing length),
\* every round of greedy_set_cover_std, with its early break and its cap of
\* sets.len() iterations, selects the set greedy_set_cover_textbook selects
\* from the same cover and uncovered elements, or ends as it ends; both
\* functions return the same set of indices.
C13_StdEqualsTextbook ==
    (entry \in LibEntries /\ algo = "greedy-standard" /\ pc \in { "loop", "done" })
        => /\ st.status = "run" =>
                 AsTextbook(StdStep(int_sets_vec, st))
                     = TextbookStep(int_sets_vec, AsTextbook(st))
           /\ AsTextbook(greedy_set_cover_std(int_sets_vec))
                 = greedy_set_cover_textbook(int_sets_vec)
           /\ st.status # "run" =>
                 AsTextbook(st) = greedy_set_cover_textbook(int_sets_vec)

\* the first round broke at the second, shorter set and selected the first;
\* the second round is still to run
C13_Witness ==
    /\ entry \in LibEntries /\ algo = "greedy-standard" /\ pc = "loop"
    /\ Len(int_sets_vec) = 2
    /\ Len(int_sets_vec[2]) < Len(int_sets_vec[1])
    /\ st.status = "run" /\ st.iterations = 1 /\ st.cover = {1}
    /\ st.uncovered_elements # {}

\* C14: whenever greedy_set_cover_bitset is at the head of its while loop,
\* whatever bitsets it was given, `remaining` is the number of one bits of
\* `uncovered` and is not negative, `uncovered` has the words of the universe
\* and no bit at or past universe_size, and the shift of the mask is within
\* 1..63 when it is made; whenever greedy_set_cover_dense is at the head of
\* its while loop, `remaining` is the number of true entries of `uncovered`.
C14_RemainingCountsUncovered ==
    (entry \in DenseEntries /\ pc = "loop" /\ st.status = "run") =>
        /\ st.remaining >= 0
        /\ st.remaining = Cardinality(UncoveredIn(st))
        /\ UncoveredIn(st) \subseteq 0 .. universe_size - 1
        /\ entry = "greedy_set_cover_bitset" =>
             /\ Len(st.uncovered) = NumWords(universe_size)
             /\ \A w \in DOMAIN st.uncovered : st.uncovered[w] \subseteq AllOnes
             /\ Excess(universe_size) \in 0 .. WordBits - 1

\* the second round of greedy_set_cover_bitset is about to start on a
\* universe of two words not filling the last, one of the bitsets holding a
\* bit past the universe
C14_Witness ==
    /\ entry = "greedy_set_cover_bitset" /\ pc = "loop" /\ st.status = "run"
    /\ universe_size > WordBits /\ Excess(universe_size) > 0
    /\ Len(st.chosen) = 1
    /\ \E i \in DOMAIN sets_bits :
         ~(IdsOfWords(sets_bits[i]) \subseteq 0 .. universe_size - 1)

\* the size of the universe the running strategy has to cover
UniverseIn ==
    IF entry \in LibEntries /\ algo # "greedy-bitvec"
    THEN Cardinality(AllElements(int_sets_vec))
    ELSE universe_size

\* C15: every call ends; a round that does not end the call in failure
\* selects one set not selected before and leaves fewer ids uncovered than it
\* found; the rounds that have selected are never more than the smaller of
\* the number of sets and the size of the universe, in every strategy,
\* greedy_set_cover_textbook with its uncapped loop included.
C15_Termination ==
    /\ [][ Selecting =>
             /\ \E k \in (1 .. NumSets) \ SelectedIn(st) :
                  SelectedIn(st') = SelectedIn(st) \cup {k}
             /\ Cardinality(UncoveredIn(st')) < Cardinality(UncoveredIn(st))
          ]_vars
    /\ []( (entry \in Strategies /\ st.status # "none")
             => Cardinality(SelectedIn(st)) <= Min(NumSets, UniverseIn) )
    /\ <>(pc = "done")

\* greedy_set_cover_textbook has returned after as many rounds as there are
\* sets and elements, two of each
C15_Witness ==
    /\ pc = "done" /\ entry \in LibEntries /\ algo = "greedy-textbook"
    /\ result.kind = "Ok"
    /\ Cardinality(st.cover) = 2
    /\ NumSets = 2 /\ UniverseIn = 2

=============================================================================
